---- MODULE Spec2Model ----
(***************************************************************************)
(* Model of fastapi_users/db/ormar.py: OrmarUserDatabase, the adapter that *)
(* maps user domain objects (with optional OAuth accounts) onto two        *)
(* relational tables.                                                      *)
(*                                                                         *)
(* The relational store is not part of the file.  Its operations are       *)
(* modelled with the meaning the adapter's code relies on at each call     *)
(* site: get() raises NoMatch on no row and MultipleMatches on several,    *)
(* first() yields the row with the lowest primary key or None, save()      *)
(* persists a new or a loaded row, unique columns reject duplicates.       *)
(***************************************************************************)
EXTENDS Integers, Sequences, FiniteSets, TLC

VARIABLES
    oauth_account_model, \* TRUE iff the adapter was built with an OAuth account model
    users,               \* rows of the user table
    accounts,            \* rows of the OAuth account table
    ret,                 \* the last completed call: operation, argument, outcome, and
                         \* the rows of the user it wrote as they were before it
    created,             \* per id: the object of the last successful create, while
                         \* no update or delete of that id has run since
    calls,               \* per caller: the call in flight and its position
    seen                 \* kinds of half-written state a crash has left behind

vars == <<oauth_account_model, users, accounts, ret, created, calls, seen>>

----------------------------------------------------------------------------
(* Bounds and input domains *)

MaxUsers == 2
MaxList == 2

UserIds == 1..MaxUsers

\* e-mail addresses are strings; three of them, two equal up to letter case
Emails == { <<"F", "@", "B">>, <<"f", "@", "b">>, <<"x", "@", "y">> }

Profiles ==
    { [hashed_password |-> "h1", is_active |-> TRUE,  is_superuser |-> FALSE],
      [hashed_password |-> "h2", is_active |-> FALSE, is_superuser |-> TRUE] }

\* OAuth account objects a caller may pass: primary key, provider, account id;
\* two of them name the same external account under different primary keys
GoogleFirst == [id |-> 1, oauth_name |-> "google", account_id |-> "42"]
Github == [id |-> 2, oauth_name |-> "github", account_id |-> "42"]
GoogleSecond == [id |-> 3, oauth_name |-> "google", account_id |-> "42"]

OAuthObjs == { GoogleFirst, Github, GoogleSecond }

\* the lists a caller may pass: up to MaxList accounts, in the order of their keys
OAuthLists ==
    { l \in UNION { [1..n -> OAuthObjs] : n \in 0..MaxList } :
        \A i, j \in DOMAIN l : i < j => l[i].id < l[j].id }

\* a domain object (UD)
MkUser(i, e, p, l) ==
    [id |-> i, email |-> e, hashed_password |-> p.hashed_password,
     is_active |-> p.is_active, is_superuser |-> p.is_superuser,
     oauth_accounts |-> l]

\* the objects passed where the scalar columns are in question: every e-mail and
\* profile, with no account or the first one
UserObjs ==
    { MkUser(i, e, p, l) :
        i \in UserIds, e \in Emails, p \in Profiles,
        l \in { x \in OAuthLists : \A k \in DOMAIN x : x[k].id = 1 } }

\* the objects passed where the linked accounts are in question: every list,
\* with one of two unrelated e-mail addresses
LinkedObjs ==
    { MkUser(i, p.email, p, l) :
        i \in UserIds, l \in OAuthLists,
        p \in { [email |-> <<"F", "@", "B">>, hashed_password |-> "h1",
                 is_active |-> TRUE, is_superuser |-> FALSE],
                [email |-> <<"x", "@", "y">>, hashed_password |-> "h2",
                 is_active |-> FALSE, is_superuser |-> TRUE] } }

OAuthKeys == { [oauth_name |-> o.oauth_name, account_id |-> o.account_id] : o \in OAuthObjs }

Callers == {"c1", "c2"}

----------------------------------------------------------------------------
(* Helpers *)

Range(s) == { s[i] : i \in DOMAIN s }

LowerChar(c) ==
    CASE c = "F" -> "f"
      [] c = "B" -> "b"
      [] c = "X" -> "x"
      [] c = "Y" -> "y"
      [] OTHER -> c

Lower(s) == [i \in DOMAIN s |-> LowerChar(s[i])]

\* filter(email__iexact=...): equality up to letter case
iexact(a, b) == Lower(a) = Lower(b)

\* as UserRow, with the e-mail normalised to lower case on the way in
UserRowLowerEmail(u) ==
    [id |-> u.id, email |-> Lower(u.email), hashed_password |-> u.hashed_password,
     is_active |-> u.is_active, is_superuser |-> u.is_superuser]

\* the scalar columns of a user row, from a domain object
UserRow(u) ==
    [id |-> u.id, email |-> u.email, hashed_password |-> u.hashed_password,
     is_active |-> u.is_active, is_superuser |-> u.is_superuser]

\* an account row linked to the user row of id uid
AccountRow(uid, o) ==
    [id |-> o.id, user |-> uid, oauth_name |-> o.oauth_name, account_id |-> o.account_id]

Min(S) == CHOOSE x \in S : \A y \in S : x <= y

----------------------------------------------------------------------------
(* Reads *)

AccountsOf(acc, uid) == { a \in acc : a.user = uid }

\* to_dict, then user_db_model(**user_dict): the row's columns and, through the
\* backward relation, the account rows linked to it (none without the relation)
to_dict(row, acc) ==
    [id |-> row.id, email |-> row.email, hashed_password |-> row.hashed_password,
     is_active |-> row.is_active, is_superuser |-> row.is_superuser,
     oauth_accounts |->
        IF oauth_account_model
        THEN { [id |-> a.id, oauth_name |-> a.oauth_name, account_id |-> a.account_id] :
                 a \in AccountsOf(acc, row.id) }
        ELSE {}]

Found(row, acc) == [status |-> "ok", val |-> {to_dict(row, acc)}]
Absent == [status |-> "None", val |-> {}]
Raised(e) == [status |-> e, val |-> {}]

\* as get, with the store's NoMatch left uncaught
GetRaises(usr, acc, id) ==
    LET rows == { r \in usr : r.id = id }
    IN  IF rows = {} THEN Raised("NoMatch")
        ELSE Found(CHOOSE r \in rows : TRUE, acc)

\* get(id)
get(usr, acc, id) ==
    LET rows == { r \in usr : r.id = id }
    IN  IF rows = {} THEN Absent
        ELSE Found(CHOOSE r \in rows : TRUE, acc)

\* get_by_email(email): first() of the case-insensitive matches, by primary key
get_by_email(usr, acc, email) ==
    LET rows == { r \in usr : iexact(r.email, email) }
    IN  IF rows = {} THEN Absent
        ELSE Found(CHOOSE r \in rows : r.id = Min({ x.id : x \in rows }), acc)

\* get_by_oauth_account(oauth, account_id): get() over the join with the accounts
get_by_oauth_account(usr, acc, oauth, account_id) ==
    LET rows == { r \in usr : \E a \in acc : /\ a.user = r.id
                                             /\ a.oauth_name = oauth
                                             /\ a.account_id = account_id }
    IN  IF ~oauth_account_model THEN Raised("QueryError")
        ELSE IF rows = {} THEN Absent
        ELSE IF Cardinality(rows) > 1 THEN Raised("MultipleMatches")
        ELSE Found(CHOOSE r \in rows : TRUE, acc)

----------------------------------------------------------------------------
(* Writes to the store *)

\* model.save() of a new row: the primary key and the e-mail column are unique
SaveNew(usr, row) ==
    IF \E r \in usr : r.id = row.id \/ r.email = row.email
    THEN [status |-> "IntegrityError", users |-> usr]
    ELSE [status |-> "ok", users |-> usr \cup {row}]

\* as SaveLoaded, with the e-mail column left out of the columns written
SaveLoadedKeepsEmail(usr, row) ==
    [status |-> "ok",
     users |-> { r \in usr : r.id # row.id }
               \cup { [row EXCEPT !.email = r.email] : r \in { x \in usr : x.id = row.id } }]

\* model.save() of the row loaded by get(id=user.id), with its columns overwritten
SaveLoaded(usr, row) ==
    IF \E r \in usr : r.id # row.id /\ r.email = row.email
    THEN [status |-> "IntegrityError", users |-> usr]
    ELSE [status |-> "ok", users |-> { r \in usr : r.id # row.id } \cup {row}]

\* positions of the list whose primary key is taken, in the table or earlier in the list
Conflicts(acc, l) ==
    { i \in DOMAIN l : \/ \E a \in acc : a.id = l[i].id
                       \/ \E j \in 1..(i - 1) : l[j].id = l[i].id }

NewRows(uid, l, n) == { AccountRow(uid, l[i]) : i \in 1..n }

\* bulk_create: all rows, or a failure that leaves nothing or the rows before the
\* first duplicate key (one statement or one per row, as the driver sends them)
bulk_create(acc, uid, l) ==
    IF Conflicts(acc, l) = {}
    THEN { [status |-> "ok", accounts |-> acc \cup NewRows(uid, l, Len(l))] }
    ELSE { [status |-> "IntegrityError", accounts |-> acc],
           [status |-> "IntegrityError",
            accounts |-> acc \cup NewRows(uid, l, Min(Conflicts(acc, l)) - 1)] }

\* model.oauth_accounts.all().delete()
DeleteAccounts(acc, uid) == acc \ AccountsOf(acc, uid)

\* "if oauth_accounts and self.oauth_account_model": an empty list is falsy
WritesAccounts(u) == u.oauth_accounts # <<>> /\ oauth_account_model

----------------------------------------------------------------------------
(* The handlers as whole calls: every outcome a call can end with *)

Outcome(st, usr, acc) == [status |-> st, users |-> usr, accounts |-> acc]

\* create(user)
create(usr, acc, u) ==
    LET s == SaveNew(usr, UserRow(u))
    IN  IF s.status # "ok" THEN { Outcome(s.status, usr, acc) }
        ELSE IF WritesAccounts(u)
        THEN { Outcome(b.status, s.users, b.accounts) :
                 b \in bulk_create(acc, u.id, u.oauth_accounts) }
        ELSE { Outcome("ok", s.users, acc) }

\* as update, inserting the row when there is none to update
UpdateOrCreate(usr, acc, u) ==
    LET s == SaveLoaded(usr, UserRow(u))
    IN  IF s.status # "ok" THEN { Outcome(s.status, usr, acc) }
        ELSE IF WritesAccounts(u)
        THEN { Outcome(b.status, s.users, b.accounts) :
                 b \in bulk_create(DeleteAccounts(acc, u.id), u.id, u.oauth_accounts) }
        ELSE { Outcome("ok", s.users, acc) }

\* as update, adding the new accounts to the ones already linked
UpdateMerges(usr, acc, u) ==
    IF ~\E r \in usr : r.id = u.id THEN { Outcome("NoMatch", usr, acc) }
    ELSE LET s == SaveLoaded(usr, UserRow(u))
         IN  IF s.status # "ok" THEN { Outcome(s.status, usr, acc) }
             ELSE IF WritesAccounts(u)
             THEN { Outcome(b.status, s.users, b.accounts) :
                      b \in bulk_create(acc, u.id, u.oauth_accounts) }
             ELSE { Outcome("ok", s.users, acc) }

\* update(user)
update(usr, acc, u) ==
    IF ~\E r \in usr : r.id = u.id THEN { Outcome("NoMatch", usr, acc) }
    ELSE LET s == SaveLoaded(usr, UserRow(u))
         IN  IF s.status # "ok" THEN { Outcome(s.status, usr, acc) }
             ELSE IF WritesAccounts(u)
             THEN { Outcome(b.status, s.users, b.accounts) :
                      b \in bulk_create(DeleteAccounts(acc, u.id), u.id, u.oauth_accounts) }
             ELSE { Outcome("ok", s.users, acc) }

\* delete(user): the user row goes.  What becomes of its account rows is the
\* store's referential action, which the adapter does not choose: they go too
\* (cascade), they stay behind (no enforcement), or the delete is refused (restrict)
delete(usr, acc, id) ==
    LET rest == { r \in usr : r.id # id }
    IN  IF rest = usr \/ AccountsOf(acc, id) = {}
        THEN { Outcome("ok", rest, acc) }
        ELSE { Outcome("ok", rest, DeleteAccounts(acc, id)),
               Outcome("ok", rest, acc),
               Outcome("IntegrityError", usr, acc) }

----------------------------------------------------------------------------
(* Sequential callers: one call at a time, each call one step *)

\* the rows of user id before a call writes them
Before(id) == [users |-> { r \in users : r.id = id }, accounts |-> AccountsOf(accounts, id)]
NoBefore == [users |-> {}, accounts |-> {}]

Idle == [pc |-> "idle", op |-> "", user |-> {}, status |-> "", removed |-> FALSE]

Init ==
    /\ oauth_account_model \in BOOLEAN
    /\ users = {}
    /\ accounts = {}
    /\ ret = [op |-> "init", arg |-> 0, status |-> "ok", val |-> {}, before |-> NoBefore]
    /\ created = [i \in UserIds |-> {}]
    /\ calls = [c \in Callers |-> Idle]
    /\ seen = {}

Config == <<oauth_account_model>>

GetCall(id) ==
    /\ ret' = [op |-> "get", arg |-> id, before |-> NoBefore] @@ get(users, accounts, id)
    /\ UNCHANGED <<Config, users, accounts, created, calls, seen>>

GetByEmailCall(email) ==
    /\ ret' = [op |-> "get_by_email", arg |-> email, before |-> NoBefore]
                @@ get_by_email(users, accounts, email)
    /\ UNCHANGED <<Config, users, accounts, created, calls, seen>>

GetByOauthAccountCall(k) ==
    /\ ret' = [op |-> "get_by_oauth_account", arg |-> k, before |-> NoBefore]
                @@ get_by_oauth_account(users, accounts, k.oauth_name, k.account_id)
    /\ UNCHANGED <<Config, users, accounts, created, calls, seen>>

CreateCall(u) ==
    \E o \in create(users, accounts, u) :
        /\ users' = o.users
        /\ accounts' = o.accounts
        /\ ret' = [op |-> "create", arg |-> u.id, status |-> o.status,
                   val |-> IF o.status = "ok" THEN {u} ELSE {}, before |-> NoBefore]
        /\ created' = IF o.status = "ok" THEN [created EXCEPT ![u.id] = {u}] ELSE created
        /\ UNCHANGED <<Config, calls, seen>>

UpdateCall(u) ==
    \E o \in update(users, accounts, u) :
        /\ users' = o.users
        /\ accounts' = o.accounts
        /\ ret' = [op |-> "update", arg |-> u.id, status |-> o.status,
                   val |-> IF o.status = "ok" THEN {u} ELSE {}, before |-> Before(u.id)]
        /\ created' = [created EXCEPT ![u.id] = {}]
        /\ UNCHANGED <<Config, calls, seen>>

DeleteCall(id) ==
    \E o \in delete(users, accounts, id) :
        /\ users' = o.users
        /\ accounts' = o.accounts
        /\ ret' = [op |-> "delete", arg |-> id, status |-> o.status, val |-> {},
                   before |-> Before(id)]
        /\ created' = [created EXCEPT ![id] = {}]
        /\ UNCHANGED <<Config, calls, seen>>

Next ==
    \/ \E id \in UserIds : GetCall(id)
    \/ \E e \in Emails : GetByEmailCall(e)
    \/ \E k \in OAuthKeys : GetByOauthAccountCall(k)
    \/ \E u \in UserObjs : CreateCall(u)
    \/ \E u \in UserObjs : UpdateCall(u)
    \/ \E id \in UserIds : DeleteCall(id)

Spec == Init /\ [][Next]_vars

\* the same calls, with the objects that carry account lists
NextLinked ==
    \/ \E id \in UserIds : GetCall(id)
    \/ \E e \in Emails : GetByEmailCall(e)
    \/ \E k \in OAuthKeys : GetByOauthAccountCall(k)
    \/ \E u \in LinkedObjs : CreateCall(u)
    \/ \E u \in LinkedObjs : UpdateCall(u)
    \/ \E id \in UserIds : DeleteCall(id)

SpecLinked == Init /\ [][NextLinked]_vars

----------------------------------------------------------------------------
(* Concurrent callers: create and update take one step per awaited storage     *)
(* call, and the steps of different callers interleave.  No transaction spans  *)
(* the steps of a call; a caller may be cut off between any two of them.       *)

\* the objects the concurrent callers pass
ConcObjs ==
    { MkUser(1, <<"F", "@", "B">>,
             [hashed_password |-> "h1", is_active |-> TRUE, is_superuser |-> FALSE],
             <<GoogleFirst, GoogleSecond>>),
      MkUser(1, <<"f", "@", "b">>,
             [hashed_password |-> "h2", is_active |-> FALSE, is_superuser |-> TRUE],
             <<Github>>),
      MkUser(2, <<"x", "@", "y">>,
             [hashed_password |-> "h1", is_active |-> TRUE, is_superuser |-> FALSE],
             << >>) }

At(c, pc) == calls[c].pc = pc
Arg(c) == CHOOSE u \in calls[c].user : TRUE

Goto(c, pc) == calls' = [calls EXCEPT ![c].pc = pc]
Done(c, st) == calls' = [calls EXCEPT ![c].pc = "done", ![c].status = st]
Begin(c, op, u, pc, st) ==
    calls' = [calls EXCEPT ![c] = [pc |-> pc, op |-> op, user |-> {u}, status |-> st,
                                   removed |-> FALSE]]

Ghosts == <<ret, created>>

\* as CreateSave, with the row and its accounts written in one transaction
CreateInOneStep(c, u) ==
    /\ At(c, "idle")
    /\ \E o \in create(users, accounts, u) :
          /\ users' = IF o.status = "ok" THEN o.users ELSE users
          /\ accounts' = IF o.status = "ok" THEN o.accounts ELSE accounts
          /\ Begin(c, "create", u, "done", o.status)
    /\ UNCHANGED <<Config, Ghosts, seen>>

\* create: model.save()
CreateSave(c, u) ==
    /\ At(c, "idle")
    /\ LET s == SaveNew(users, UserRow(u))
       IN  /\ users' = s.users
           /\ IF s.status # "ok" THEN Begin(c, "create", u, "done", s.status)
              ELSE IF WritesAccounts(u) THEN Begin(c, "create", u, "create_bulk", "")
              ELSE Begin(c, "create", u, "done", "ok")
    /\ UNCHANGED <<Config, accounts, Ghosts, seen>>

\* create: bulk_create of the account rows
CreateBulk(c) ==
    /\ At(c, "create_bulk")
    /\ \E b \in bulk_create(accounts, Arg(c).id, Arg(c).oauth_accounts) :
          /\ accounts' = b.accounts
          /\ Done(c, b.status)
    /\ UNCHANGED <<Config, users, Ghosts, seen>>

\* update: self.model.get(id=user.id)
UpdateGet(c, u) ==
    /\ At(c, "idle")
    /\ IF \E r \in users : r.id = u.id
       THEN Begin(c, "update", u, "update_save", "")
       ELSE Begin(c, "update", u, "done", "NoMatch")
    /\ UNCHANGED <<Config, users, accounts, Ghosts, seen>>

\* update: setattr of every field, model.save()
UpdateSave(c) ==
    /\ At(c, "update_save")
    /\ LET s == SaveLoaded(users, UserRow(Arg(c)))
       IN  /\ users' = s.users
           /\ IF s.status # "ok" THEN Done(c, s.status)
              ELSE IF WritesAccounts(Arg(c)) THEN Goto(c, "update_delete")
              ELSE Done(c, "ok")
    /\ UNCHANGED <<Config, accounts, Ghosts, seen>>

\* update: model.oauth_accounts.all().delete()
UpdateDeleteAccounts(c) ==
    /\ At(c, "update_delete")
    /\ accounts' = DeleteAccounts(accounts, Arg(c).id)
    /\ calls' = [calls EXCEPT ![c].pc = "update_bulk",
                              ![c].removed = AccountsOf(accounts, Arg(c).id) # {}]
    /\ UNCHANGED <<Config, users, Ghosts, seen>>

\* update: bulk_create of the account rows
UpdateBulk(c) ==
    /\ At(c, "update_bulk")
    /\ \E b \in bulk_create(accounts, Arg(c).id, Arg(c).oauth_accounts) :
          /\ accounts' = b.accounts
          /\ Done(c, b.status)
    /\ UNCHANGED <<Config, users, Ghosts, seen>>

\* the call returns or raises to its caller
Return(c) ==
    /\ At(c, "done")
    /\ calls' = [calls EXCEPT ![c] = Idle]
    /\ UNCHANGED <<Config, users, accounts, Ghosts, seen>>

InFlight == {"create_bulk", "update_save", "update_delete", "update_bulk"}

\* what a caller cut off at its position leaves half-written
HalfWritten(c) ==
    LET u == Arg(c)
        mine == AccountsOf(accounts, u.id)
        new == NewRows(u.id, u.oauth_accounts, Len(u.oauth_accounts))
    IN  IF UserRow(u) \notin users THEN {}
        ELSE IF At(c, "create_bulk") /\ mine \cap new = {}
             THEN {"created without its accounts"}
        ELSE IF At(c, "update_delete") /\ mine # {} /\ mine \cap new = {}
             THEN {"updated with its old accounts"}
        ELSE IF At(c, "update_bulk") /\ calls[c].removed /\ mine = {}
             THEN {"updated with no accounts"}
        ELSE {}

\* the caller is cut off (a crash, a cancellation) between two storage calls:
\* nothing in create or update catches that or undoes the step already made
Crash(c) ==
    /\ calls[c].pc \in InFlight
    /\ seen' = seen \cup HalfWritten(c)
    /\ calls' = [calls EXCEPT ![c] = Idle]
    /\ UNCHANGED <<Config, users, accounts, Ghosts>>

NextConc ==
    \/ \E c \in Callers, u \in ConcObjs : CreateSave(c, u)
    \/ \E c \in Callers : CreateBulk(c)
    \/ \E c \in Callers, u \in ConcObjs : UpdateGet(c, u)
    \/ \E c \in Callers : UpdateSave(c)
    \/ \E c \in Callers : UpdateDeleteAccounts(c)
    \/ \E c \in Callers : UpdateBulk(c)
    \/ \E c \in Callers : Return(c)
    \/ \E c \in Callers : Crash(c)

SpecConc == Init /\ [][NextConc]_vars

----------------------------------------------------------------------------
(* Properties of the sequential calls *)

SameScalars(d, u) ==
    /\ d.id = u.id
    /\ d.email = u.email
    /\ d.hashed_password = u.hashed_password
    /\ d.is_active = u.is_active
    /\ d.is_superuser = u.is_superuser

SameKey(a, b) == a.oauth_name = b.oauth_name /\ a.account_id = b.account_id

\* C1: while a user stored by a successful create has been neither updated nor
\* deleted, get of its id returns an object with the same id and scalar fields.
CreatedIsReadBack ==
    \A id \in UserIds : \A u \in created[id] :
        LET g == get(users, accounts, id)
        IN  /\ g.status = "ok"
            /\ g.val # {}
            /\ \A d \in g.val : SameScalars(d, u)

\* C1, reached: a get has returned a created user whose e-mail has capitals
CreatedIsReadBackWitness ==
    /\ ret.op = "get"
    /\ ret.status = "ok"
    /\ created[ret.arg] # {}
    /\ \E d \in ret.val : d.email = <<"F", "@", "B">> /\ d.is_superuser

\* C2: while a created user has been neither updated nor deleted, get_by_email
\* returns that user for every address equal to its e-mail up to letter case.
EmailLookupIgnoresCase ==
    \A id \in UserIds : \A u \in created[id] : \A e \in Emails :
        iexact(e, u.email) =>
            LET g == get_by_email(users, accounts, e)
            IN  /\ g.status = "ok"
                /\ \A d \in g.val : d.id = u.id

\* C3, as stated: get returns the absent result for every id no stored user has,
\* and get_by_email does for every address no stored user has.
AbsentForUnstored ==
    /\ \A id \in UserIds :
          (~\E r \in users : r.id = id) => get(users, accounts, id) = Absent
    /\ \A e \in Emails :
          (~\E r \in users : r.email = e) => get_by_email(users, accounts, e) = Absent

\* C3, amended: get returns the absent result, and raises nothing, for every id
\* no stored user has, the id of a user just deleted included; get_by_email does
\* for every address that no stored user's e-mail equals up to letter case.
AbsentForUnmatched ==
    /\ \A id \in UserIds :
          (~\E r \in users : r.id = id) => get(users, accounts, id) = Absent
    /\ \A e \in Emails :
          (~\E r \in users : iexact(r.email, e)) => get_by_email(users, accounts, e) = Absent
    /\ (ret.op = "delete" /\ ret.status = "ok") => get(users, accounts, ret.arg) = Absent

\* C3, reached: a stored user has been deleted while another one stays, and neither its id nor
\* its e-mail finds anything
AbsentForUnmatchedWitness ==
    /\ ret.op = "delete"
    /\ ret.status = "ok"
    /\ users # {}
    /\ \E r \in ret.before.users :
          /\ get(users, accounts, r.id).status = "None"
          /\ get_by_email(users, accounts, r.email).status = "None"

\* C6: an update of an id that has no row ends with the store's NoMatch and
\* leaves both tables as they were.
UpdateOfMissingFails ==
    [][ (ret'.op = "update" /\ ~\E r \in users : r.id = ret'.arg)
            => /\ ret'.status = "NoMatch"
               /\ users' = users
               /\ accounts' = accounts ]_vars

\* C6, reached: an update of an id that has no row has failed while another user is stored
UpdateOfMissingFailsWitness ==
    /\ ret.op = "update"
    /\ ret.status = "NoMatch"
    /\ ret.before.users = {}
    /\ users # {}

\* C7: an update that completes leaves the row of its id with the scalars of
\* the object passed, keeps the number of rows and leaves every other row alone.
UpdateOverwritesScalars ==
    [][ (ret'.op = "update" /\ ret'.status = "ok")
            => \A u \in ret'.val :
                  /\ get(users', accounts', u.id).status = "ok"
                  /\ \A d \in get(users', accounts', u.id).val : SameScalars(d, u)
                  /\ Cardinality(users') = Cardinality(users)
                  /\ \A r \in users : r.id # u.id => r \in users' ]_vars

\* C7, reached: an update has completed that changed every scalar of a row, next to another row
UpdateOverwritesScalarsWitness ==
    /\ ret.op = "update"
    /\ ret.status = "ok"
    /\ Cardinality(users) = 2
    /\ \E u \in ret.val : \E r \in ret.before.users :
          /\ r.email # u.email
          /\ r.hashed_password # u.hashed_password
          /\ r.is_active # u.is_active
          /\ r.is_superuser # u.is_superuser

\* C4: with the account model configured, while a created user has been neither
\* updated nor deleted, get_by_oauth_account returns it for every account of the
\* list it was created with, whatever else is stored.
CreatedIsFoundByAccount ==
    oauth_account_model =>
        \A id \in UserIds : \A u \in created[id] : \A a \in Range(u.oauth_accounts) :
            LET g == get_by_oauth_account(users, accounts, a.oauth_name, a.account_id)
            IN  /\ g.status = "ok"
                /\ \A d \in g.val : d.id = u.id

\* C5: after an update that completes with a non-empty list, get returns
\* exactly the accounts of that list, and no account linked before whose provider
\* and account id are not in the list finds the user any more.
UpdateReplacesAccounts ==
    (ret.op = "update" /\ ret.status = "ok" /\ oauth_account_model) =>
        \A u \in ret.val :
            u.oauth_accounts # <<>> =>
                /\ get(users, accounts, u.id).status = "ok"
                /\ \A d \in get(users, accounts, u.id).val :
                      d.oauth_accounts = Range(u.oauth_accounts)
                /\ \A a \in ret.before.accounts :
                      (~\E b \in Range(u.oauth_accounts) : SameKey(a, b)) =>
                          \A d \in get_by_oauth_account(users, accounts,
                                                     a.oauth_name, a.account_id).val :
                              d.id # u.id

\* C5, reached: a user with two linked accounts has been updated with one new account of
\* another provider
UpdateReplacesAccountsWitness ==
    /\ ret.op = "update"
    /\ ret.status = "ok"
    /\ Cardinality(ret.before.accounts) = 2
    /\ \E u \in ret.val :
          /\ Len(u.oauth_accounts) = 1
          /\ \A a \in ret.before.accounts : ~SameKey(a, u.oauth_accounts[1])
          /\ \E d \in get(users, accounts, u.id).val : Cardinality(d.oauth_accounts) = 1

\* C8: with the account model configured, after an update that completes get
\* returns exactly the accounts of the list passed, for every list, the empty
\* one included.
UpdateReplacesEveryList ==
    (ret.op = "update" /\ ret.status = "ok" /\ oauth_account_model) =>
        \A u \in ret.val :
            \A d \in get(users, accounts, u.id).val :
                d.oauth_accounts = Range(u.oauth_accounts)

----------------------------------------------------------------------------
(* Properties of the concurrent calls *)

\* C9: create and update write the user row and the account rows in separate
\* steps, each step one table, and a caller cut off between them leaves both
\* tables as they are: nothing is rolled back.
WritesAreSeparateSteps ==
    [][ \A c \in Callers :
          calls'[c] # calls[c] =>
              /\ (At(c, "idle") /\ calls'[c].op = "create") => accounts' = accounts
              /\ At(c, "create_bulk") => users' = users
              /\ (At(c, "update_save") /\ calls'[c].pc # "idle") => accounts' = accounts
              /\ (At(c, "update_delete") /\ calls'[c].pc # "idle")
                    => /\ users' = users
                       /\ accounts' = accounts \ AccountsOf(accounts, Arg(c).id)
              /\ At(c, "update_bulk") => users' = users
              /\ (calls[c].pc \in InFlight /\ calls'[c].pc = "idle")
                    => users' = users /\ accounts' = accounts ]_vars

\* C9, reached: callers have been cut off leaving a user created without the accounts passed,
\* a user updated with its old accounts, and a user updated with no accounts
WritesAreSeparateStepsWitness ==
    seen = { "created without its accounts", "updated with its old accounts",
             "updated with no accounts" }

\* C10: when two updates of the same user, each with a non-empty list, have both
\* completed, the user's linked accounts are exactly one of the two lists.
ConcurrentUpdatesLeaveOneList ==
    oauth_account_model =>
        \A c, d \in Callers :
            ( /\ c # d
              /\ At(c, "done") /\ calls[c].op = "update" /\ calls[c].status = "ok"
              /\ At(d, "done") /\ calls[d].op = "update" /\ calls[d].status = "ok"
              /\ Arg(c).id = Arg(d).id
              /\ Arg(c).oauth_accounts # <<>>
              /\ Arg(d).oauth_accounts # <<>> )
            => LET mine == AccountsOf(accounts, Arg(c).id)
                   rows(u) == NewRows(u.id, u.oauth_accounts, Len(u.oauth_accounts))
               IN  mine = rows(Arg(c)) \/ mine = rows(Arg(d))

====
